---- MODULE Spec2Model ----
(***************************************************************************)
(* Generation kernel of ProceduralTerrain.jsx: the seeded generator        *)
(* SeededRNG (hashString, next, range, reset), the permutation build of    *)
(* SeededNoise and its noise2D / fractalNoise queries.                     *)
(*                                                                         *)
(* Number representation.  The checker's integers are 32-bit signed, the   *)
(* program's numbers are IEEE doubles and 32-bit words, so every program   *)
(* integer is kept in base-65536 limbs, most significant limb first:       *)
(*   word  <<hi, lo>>          value hi*2^16 + lo.  An unsigned word has   *)
(*                             hi in 0..65535, a signed one (the result    *)
(*                             of ^, |, &, <<, Math.imul) has hi in        *)
(*                             -32768..32767;                              *)
(*   big   <<l3, l2, l1, l0>>  a non-negative integer below 2^64, used for *)
(*                             integer-valued doubles such as this.state.  *)
(***************************************************************************)
EXTENDS Integers, Sequences, FiniteSets, TLC

B == 2^16
HalfB == 2^15

\* 2^n for the shift counts and rounding exponents used below.
Pow2(n) == 2^n

\* Number of significant bits of a limb.
BitLen(a) == CHOOSE n \in 0..16 : a < 2^n /\ (n = 0 \/ a >= 2^(n - 1))

\* Bit i of a limb.
Bit(a, i) == (a \div 2^i) % 2

\* Bitwise ^ and | on one 16-bit limb.
Xor16(a, b) ==
  LET x(i) == ((Bit(a, i) + Bit(b, i)) % 2) * 2^i
  IN  IF a = b THEN 0
      ELSE ((x(0) + x(1) + x(2) + x(3)) + (x(4) + x(5) + x(6) + x(7)))
           + ((x(8) + x(9) + x(10) + x(11)) + (x(12) + x(13) + x(14) + x(15)))

Or16(a, b) ==
  LET x(i) == (IF Bit(a, i) = 1 \/ Bit(b, i) = 1 THEN 1 ELSE 0) * 2^i
  IN  IF a = b THEN a
      ELSE ((x(0) + x(1) + x(2) + x(3)) + (x(4) + x(5) + x(6) + x(7)))
           + ((x(8) + x(9) + x(10) + x(11)) + (x(12) + x(13) + x(14) + x(15)))

\* ToUint32 / ToInt32 of an integer held as a word (hi may be out of range).
ToUint32(w) == <<w[1] % B, w[2]>>
ToInt32(w) ==
  LET u == ToUint32(w)
  IN  IF u[1] >= HalfB THEN <<u[1] - B, u[2]>> ELSE u

\* a ^ b and a | b : operands through ToInt32, result a signed word.
XorW(a, b) ==
  LET ua == ToUint32(a)
      ub == ToUint32(b)
  IN  ToInt32(<<Xor16(ua[1], ub[1]), Xor16(ua[2], ub[2])>>)

OrW(a, b) ==
  LET ua == ToUint32(a)
      ub == ToUint32(b)
  IN  ToInt32(<<Or16(ua[1], ub[1]), Or16(ua[2], ub[2])>>)

\* a >>> n for n in 0..15 : operand through ToUint32, result an unsigned word.
UShr(a, n) ==
  LET u == ToUint32(a)
      d == Pow2(n)
  IN  <<u[1] \div d, (u[1] % d) * (B \div d) + (u[2] \div d)>>

\* Exact product of two 16-bit limbs as an unsigned word.
Mul16(a, b) ==
  LET a1 == a \div 256
      a0 == a % 256
      b1 == b \div 256
      b0 == b % 256
      mid == a1 * b0 + a0 * b1
      low == a0 * b0 + (mid % 256) * 256
  IN  <<a1 * b1 + (mid \div 256) + (low \div B), low % B>>

\* Math.imul(a, b) : low 32 bits of the product, as a signed word.
Imul(a, b) ==
  LET ua == ToUint32(a)
      ub == ToUint32(b)
      p  == Mul16(ua[2], ub[2])
      x  == Mul16(ua[1], ub[2])[2] + Mul16(ua[2], ub[1])[2]
  IN  ToInt32(<<(p[1] + x) % B, p[2]>>)

\* a + b on two words, exact (the double sum of two 32-bit integers).
AddW(a, b) ==
  LET lo == a[2] + b[2]
  IN  <<a[1] + b[1] + (lo \div B), lo % B>>

\* Exact sum and product on bigs (callers keep the result below 2^64).
AddBig(x, y) ==
  LET s0 == x[4] + y[4]
      s1 == x[3] + y[3] + (s0 \div B)
      s2 == x[2] + y[2] + (s1 \div B)
      s3 == x[1] + y[1] + (s2 \div B)
  IN  <<s3, s2 % B, s1 % B, s0 % B>>

WordToBig(w) == <<0, 0, w[1], w[2]>>

MulWW(a, b) ==
  LET hh == Mul16(a[1], b[1])
      hl == Mul16(a[1], b[2])
      lh == Mul16(a[2], b[1])
      ll == Mul16(a[2], b[2])
  IN  AddBig(AddBig(<<hh[1], hh[2], 0, 0>>, <<0, hl[1], hl[2], 0>>),
             AddBig(<<0, lh[1], lh[2], 0>>, <<0, 0, ll[1], ll[2]>>))

LessBig(x, y) ==
  \E i \in 1..4 : x[i] < y[i] /\ \A j \in 1..(i - 1) : x[j] = y[j]

\* Rounding of an exact integer to the nearest double (53 significant bits,
\* ties to the even significand).  2^53 is <<32, 0, 0, 0>>.
RoundDouble(x) ==
  IF x[1] < 32 THEN x
  ELSE LET e    == BitLen(x[1]) - 5
           ulp  == Pow2(e)
           r    == x[4] % ulp
           odd  == (x[4] \div ulp) % 2 = 1
           down == <<x[1], x[2], x[3], x[4] - r>>
       IN  IF r * 2 > ulp \/ (r * 2 = ulp /\ odd)
           THEN AddBig(down, <<0, 0, 0, ulp>>)
           ELSE down

\* a - b on two words, exact.
SubW(a, b) ==
  LET lo == a[2] - b[2]
  IN  <<a[1] - b[1] + (lo \div B), lo % B>>

\* a << n for n in 0..15 : operand through ToInt32, result a signed word.
ShlW(a, n) ==
  LET u == ToUint32(a)
      d == Pow2(n)
  IN  ToInt32(<<(u[1] * d + ((u[2] * d) \div B)) % B, (u[2] * d) % B>>)

\* Math.abs on a signed word.
AbsW(w) ==
  IF w[1] >= 0 THEN w
  ELSE IF w[2] = 0 THEN <<-w[1], 0>>
  ELSE <<-w[1] - 1, B - w[2]>>

(***************************************************************************)
(* Inputs.  A seed is a number (an integer, held as a word whose hi limb   *)
(* is unrestricted, so -1 is <<-1, 65535>> and 2^32 is <<65536, 0>>) or a  *)
(* string (the sequence of its charCodeAt values).                         *)
(***************************************************************************)
NumSeed(hi, lo) == [type |-> "number", num |-> <<hi, lo>>, chars |-> <<>>]
StrSeed(cs) == [type |-> "string", num |-> <<0, 0>>, chars |-> cs]

Seeds ==
  { NumSeed(0, 0), NumSeed(-1, 65535), NumSeed(65536, 5), NumSeed(32768, 3),
    NumSeed(493, 29846),
    StrSeed(<<>>), StrSeed(<<97, 98>>),
    StrSeed(<<109, 121, 45, 115, 101, 101, 100>>),
    StrSeed(<<2325, 9, 30, 12, 2>>) }

\* Arguments (min, max) offered to range(), as words.
RangeArgs == { <<(<<0, 0>>), (<<0, 100>>)>>, <<(<<16384, 0>>), (<<16384, 1>>)>> }

Inst == {1, 2}

\* Number of value-returning calls recorded, over both runs.
MaxLog == 2
\* Number of draws one block of discarded draws performs.
FarDraws == 4917757

(***************************************************************************)
(* SeededRNG                                                               *)
(***************************************************************************)
\* One iteration of the loop of hashString.
HashStep(hash, char) ==
  ToInt32(AddW(SubW(ShlW(hash, 5), hash), <<0, char>>))

\* The loop of hashString: hash after the first i characters of cs (the
\* value of the previous iteration is computed before the step is applied).
RECURSIVE HashFold(_, _)
HashFold(cs, i) ==
  IF i = 0 THEN <<0, 0>>
  ELSE CHOOSE h \in {HashStep(prev, cs[i]) : prev \in {HashFold(cs, i - 1)}} :
         TRUE

\* hashString with "| 0" in place of ">>> 0" on a number seed.
hashStringSigned(str) ==
  IF str.type = "number" THEN ToInt32(str.num)
  ELSE LET hash == HashFold(str.chars, Len(str.chars))
       IN  IF AbsW(hash) = <<0, 0>> THEN <<0, 1>> ELSE AbsW(hash)

\* hashString without the "|| 1" substitution.
hashStringNoSentinel(str) ==
  IF str.type = "number" THEN UShr(str.num, 0)
  ELSE AbsW(HashFold(str.chars, Len(str.chars)))

hashString(str) ==
  IF str.type = "number" THEN UShr(str.num, 0)
  ELSE LET hash == HashFold(str.chars, Len(str.chars))
       IN  IF AbsW(hash) = <<0, 0>> THEN <<0, 1>> ELSE AbsW(hash)

\* new SeededRNG(seed)
SeededRNG(seed) ==
  [seed |-> hashString(seed), state |-> WordToBig(hashString(seed))]

\* 0x6D2B79F5
Increment == <<27947, 31221>>

\* this.state += 0x6D2B79F5 : a double addition.
Advance(state) == RoundDouble(AddBig(state, WordToBig(Increment)))

\* Lines 28, 29 and 30 of next(), each as a function of the t it starts from.
Mix1(t) == Imul(XorW(t, UShr(t, 15)), OrW(t, <<0, 1>>))
Mix2(t) == XorW(t, AddW(t, Imul(XorW(t, UShr(t, 7)), OrW(t, <<0, 61>>))))
Mix3Signed(t) == XorW(t, UShr(t, 14))
Mix3(t) == UShr(XorW(t, UShr(t, 14)), 0)

\* Temper without the final ">>> 0".
TemperSigned(t) ==
  CHOOSE u \in {Mix3Signed(c) : c \in {Mix2(b) : b \in {Mix1(a) : a \in {t}}}} :
    TRUE

\* Lines 28-30 of next() on t = the updated state, one statement after the
\* other: the integer u of the returned double u / 4294967296.
Temper(t) ==
  CHOOSE u \in {Mix3(c) : c \in {Mix2(b) : b \in {Mix1(a) : a \in {t}}}} : TRUE

\* The word the bitwise operators of next() see in the double state.
StateWord(state) == <<state[3], state[4]>>

\* next() from a given state: the integer u of the returned u / 2^32.
NextValue(state) == Temper(StateWord(Advance(state)))

\* RangeValue scaling by max instead of max - min.
RangeValueNoSpan(min, max, u) ==
  RoundDouble(AddBig(<<min[1], min[2], 0, 0>>, RoundDouble(MulWW(u, max))))

\* min + u / 2^32 * (max - min) in double arithmetic, as the integer
\* numerator over 2^32 (min, max non-negative integers, max - min < 2^21).
RangeValue(min, max, u) ==
  RoundDouble(AddBig(<<min[1], min[2], 0, 0>>,
                     RoundDouble(MulWW(u, SubW(max, min)))))

(***************************************************************************)
(* SeededNoise: the constructor                                            *)
(***************************************************************************)
NoiseIds == {1, 2}

\* A SeededNoise object that has not been constructed, and no call made.
NoObject ==
  [pc |-> "none", from |-> 0, start |-> 0, entry |-> <<0, 0, 0, 0>>, i |-> 0,
   j |-> 0, p |-> <<>>, perm |-> <<>>, permMod12 |-> <<>>]
NoCall == [op |-> "none"]

\* const p = new Uint8Array(256); for (...) p[i] = i;
Identity == [k \in 0..255 |-> k]

\* Math.floor(u / 2^32 * m) for a small integer m (the product is exact in
\* double arithmetic).
FloorScale(u, m) == (u[1] * m + ((u[2] * m) \div B)) \div B

\* The swap with the first assignment only: p[i] = p[j].
SwapLossy(p, i, j) == [p EXCEPT ![i] = p[j]]

\* [p[i], p[j]] = [p[j], p[i]]
Swap(p, i, j) == [p EXCEPT ![i] = p[j], ![j] = p[i]]

\* this.perm[i] = p[i & 255]  and  this.permMod12[i] = this.perm[i] % 12
PermOf(p) == [k \in 0..511 |-> p[k % 256]]
PermMod12Of(perm) == [k \in 0..511 |-> perm[k] % 12]

(***************************************************************************)
(* SeededNoise: noise2D and fractalNoise                                   *)
(*                                                                         *)
(* The doubles of these two methods are modelled in fixed point: a value v *)
(* is the integer floor(v * Q), sums and differences are exact, a product  *)
(* or quotient is rounded down to a multiple of 1/Q.  Integers (the cell   *)
(* coordinates i and j, the table entries, the gradient components) stay   *)
(* integers.                                                               *)
(***************************************************************************)
Q == 2^12
One == Q
Half == Q \div 2
ToFixed(k) == k * Q

\* a * b and a / b on fixed-point values (b below 2^18 in FMul, a below 2^18
\* in FDiv); 0 / 0 is NaN and v / 0 an infinity.
FMul(a, b) == (a \div Q) * b + (((a % Q) * b) \div Q)
FDiv(a, b) ==
  IF b # 0 THEN (a * Q) \div b
  ELSE IF a = 0 THEN "NaN"
  ELSE IF a > 0 THEN "Infinity" ELSE "-Infinity"

\* Math.floor on a fixed-point value: an integer.
Floor(a) == a \div Q

\* Math.sqrt(3)
Sqrt3 == 7094
\* this.F2 = 0.5 * (Math.sqrt(3) - 1)  and  this.G2 = (3 - Math.sqrt(3)) / 6
F2 == FMul(Half, Sqrt3 - One)
G2 == FDiv(ToFixed(3) - Sqrt3, ToFixed(6))

\* this.grad3, indexed from 0
grad3 ==
  [g \in 0..11 |->
     <<(<<1, 1, 0>>), (<<-1, 1, 0>>), (<<1, -1, 0>>), (<<-1, -1, 0>>),
       (<<1, 0, 1>>), (<<-1, 0, 1>>), (<<1, 0, -1>>), (<<-1, 0, -1>>),
       (<<0, 1, 1>>), (<<0, -1, 1>>), (<<0, 1, -1>>), (<<0, -1, -1>>)>>[g + 1]]

\* One corner of noise2D: the contribution of gradient gi at offset (x, y).
Corner(gi, x, y) ==
  LET t == Half - FMul(x, x) - FMul(y, y)
  IN  IF t < 0 THEN 0
      ELSE FMul(FMul(FMul(t, t), FMul(t, t)),
                grad3[gi][1] * x + grad3[gi][2] * y)

\* The simplex cell of noise2D: i and j, and the offsets x0, y0 in it.
Cell(xin, yin) ==
  LET s == FMul(xin + yin, F2)
      i == Floor(xin + s)
      j == Floor(yin + s)
      t == FMul(ToFixed(i + j), G2)
  IN  [i |-> i, j |-> j, x0 |-> xin - (ToFixed(i) - t),
       y0 |-> yin - (ToFixed(j) - t)]

\* The three gradient indices gi0, gi1, gi2 of noise2D for cell (i, j) and
\* middle corner offset (i1, j1); & 255 is the remainder modulo 256.
GradIndex(o, i, j, i1, j1) ==
  LET ii == i % 256
      jj == j % 256
  IN  <<o.permMod12[ii + o.perm[jj]],
        o.permMod12[ii + i1 + o.perm[jj + j1]],
        o.permMod12[ii + 1 + o.perm[jj + 1]]>>

\* The indices at which noise2D reads perm for cell (i, j), without the
\* & 255.
PermIndexUnmasked(i, j, i1, j1) == <<j, j + j1, j + 1>>

\* The indices at which noise2D reads perm for cell (i, j): jj, jj + j1 and
\* jj + 1 with jj = j & 255.
PermIndex(i, j, i1, j1) ==
  LET jj == j % 256
  IN  <<jj, jj + j1, jj + 1>>

\* The indices at which noise2D reads permMod12:  ii + perm[jj],
\* ii + i1 + perm[jj + j1]  and  ii + 1 + perm[jj + 1]  with ii = i & 255.
PermMod12Index(o, i, j, i1, j1) ==
  LET ii == i % 256
      at == PermIndex(i, j, i1, j1)
  IN  <<ii + o.perm[at[1]], ii + i1 + o.perm[at[2]], ii + 1 + o.perm[at[3]]>>

\* noise.noise2D(xin, yin) on the object o
Noise2DValue(o, xin, yin) ==
  LET c  == Cell(xin, yin)
      i1 == IF c.x0 > c.y0 THEN 1 ELSE 0
      j1 == 1 - i1
      gi == GradIndex(o, c.i, c.j, i1, j1)
      n0 == Corner(gi[1], c.x0, c.y0)
      n1 == Corner(gi[2], c.x0 - ToFixed(i1) + G2, c.y0 - ToFixed(j1) + G2)
      n2 == Corner(gi[3], c.x0 - One + 2 * G2, c.y0 - One + 2 * G2)
  IN  70 * (n0 + n1 + n2)

\* The loop variables of fractalNoise before its first iteration.
FractalStart == [total |-> 0, frequency |-> One, amplitude |-> One, maxValue |-> 0]

\* One iteration of the loop of fractalNoise with the frequency multiplied
\* before the sample is taken.
FractalStepFreqFirst(o, x, y, lacunarity, persistence, v) ==
  [total |-> v.total
               + FMul(Noise2DValue(o, FMul(x, FMul(v.frequency, lacunarity)),
                                   FMul(y, FMul(v.frequency, lacunarity))),
                      v.amplitude),
   maxValue |-> v.maxValue + v.amplitude,
   amplitude |-> FMul(v.amplitude, persistence),
   frequency |-> FMul(v.frequency, lacunarity)]

\* One iteration of the loop of fractalNoise on the loop variables v.
FractalStep(o, x, y, lacunarity, persistence, v) ==
  [total |-> v.total
               + FMul(Noise2DValue(o, FMul(x, v.frequency), FMul(y, v.frequency)),
                      v.amplitude),
   maxValue |-> v.maxValue + v.amplitude,
   amplitude |-> FMul(v.amplitude, persistence),
   frequency |-> FMul(v.frequency, lacunarity)]

\* The loop variables of fractalNoise after iteration i has run, for
\* i < octaves (none runs when octaves <= 0).
RECURSIVE FractalLoop(_, _, _, _, _, _)
FractalLoop(o, x, y, lacunarity, persistence, k) ==
  IF k <= 0 THEN FractalStart
  ELSE CHOOSE w \in {FractalStep(o, x, y, lacunarity, persistence, v) :
                       v \in {FractalLoop(o, x, y, lacunarity, persistence, k - 1)}} :
         TRUE

\* fractalNoise returning the sum without the division by maxValue.
FractalValueUnnormalised(o, x, y, octaves, lacunarity, persistence) ==
  FractalLoop(o, x, y, lacunarity, persistence, octaves).total

\* noise.fractalNoise(x, y, octaves, lacunarity, persistence) on the object o
FractalValue(o, x, y, octaves, lacunarity, persistence) ==
  LET v == FractalLoop(o, x, y, lacunarity, persistence, octaves)
  IN  FDiv(v.total, v.maxValue)

\* Inputs of the queries: coordinates (0.3, 0.7), (-1.5, 2.25), octave
\* counts, lacunarities 1, 2 and 3, persistences 1/3, 1/2 and 1.
Coords == { <<1228, 2867>>, <<-6144, 9216>> }
MaxOctaves == 2
Octaves == 0..MaxOctaves
Lacunarities == { Q, 2 * Q, 3 * Q }
Persistences == { Q \div 3, Q \div 2, Q }

\* Coordinates far from the origin and next to the wrap of the cell index:
\* (100000.25, 100000.5), (-100000.75, 3.5), (-0.25, -0.25), (255.6, 255.7).
\* At the first two the rounding of F2 and G2 exceeds a cell, so the offsets
\* x0, y0 leave the simplex, as they do for doubles at magnitudes that use up
\* the 53 bits.
FarCoords ==
  { <<409601024, 409602048>>, <<-409603072, 14336>>, <<-1024, -1024>>,
    <<1046938, 1047347>> }

\* Seeds of the generation runs.
NoiseSeeds ==
  { NumSeed(0, 0), NumSeed(-1, 65535), StrSeed(<<109, 121, 45, 115, 101, 101, 100>>) }

(***************************************************************************)
(* getVertexColor and the biome presets                                    *)
(*                                                                         *)
(* Heights, thresholds, the interpolation position t and colour channels   *)
(* are fixed-point values of scale Q.  THREE.Color is the three.js class:  *)
(* new THREE.Color(hex) takes the channels from the bytes of hex, divided   *)
(* by 255, clone() copies the three channels into a new object and         *)
(* lerp(color, alpha) moves each channel of the receiver by alpha times    *)
(* its distance to the argument's channel.                                 *)
(***************************************************************************)
\* A decimal literal num / den of the source.
Decimal(num, den) == (num * Q) \div den

\* new THREE.Color(hex)
Channel(byte) == (byte * Q) \div 255
Color(hex) ==
  [r |-> Channel((hex \div 65536) % 256), g |-> Channel((hex \div 256) % 256),
   b |-> Channel(hex % 256)]

Channels == {"r", "g", "b"}

\* color.lerp(target, alpha) on a copy of color
Lerp(color, target, alpha) ==
  [c \in Channels |-> color[c] + FMul(target[c] - color[c], alpha)]

\* BIOMES.grassland, BIOMES.volcanic and BIOMES.alien: the fields that
\* getVertexColor reads (hex values 0x1a472a, 0x2d5a27, ... in decimal).
Grassland ==
  [colors |-> [deep |-> Color(1722154), low |-> Color(2972199),
               mid |-> Color(4881443), high |-> Color(8172354),
               peak |-> Color(10868298)],
   thresholds |-> [deep |-> Decimal(-3, 10), low |-> 0,
                   mid |-> Decimal(3, 10), high |-> Decimal(6, 10)]]
Volcanic ==
  [colors |-> [deep |-> Color(1710618), low |-> Color(4007959),
               mid |-> Color(6111287), high |-> Color(12531212),
               peak |-> Color(16733986)],
   thresholds |-> [deep |-> Decimal(-4, 10), low |-> Decimal(-1, 10),
                   mid |-> Decimal(3, 10), high |-> Decimal(7, 10)]]
Alien ==
  [colors |-> [deep |-> Color(1703987), low |-> Color(4849792),
               mid |-> Color(8069026), high |-> Color(58998),
               peak |-> Color(7798531)],
   thresholds |-> [deep |-> Decimal(-35, 100), low |-> 0,
                   mid |-> Decimal(35, 100), high |-> Decimal(65, 100)]]

\* BIOMES.desert, tundra, ocean, canyon and marsh, likewise.
Desert ==
  [colors |-> [deep |-> Color(9127187), low |-> Color(12687979),
               mid |-> Color(13935988), high |-> Color(15124890),
               peak |-> Color(16442819)],
   thresholds |-> [deep |-> Decimal(-4, 10), low |-> Decimal(-1, 10),
                   mid |-> Decimal(2, 10), high |-> Decimal(5, 10)]]
Tundra ==
  [colors |-> [deep |-> Color(3100495), low |-> Color(6323595),
               mid |-> Color(9479342), high |-> Color(11583173),
               peak |-> Color(15527921)],
   thresholds |-> [deep |-> Decimal(-35, 100), low |-> Decimal(-5, 100),
                   mid |-> Decimal(25, 100), high |-> Decimal(55, 100)]]
Ocean ==
  [colors |-> [deep |-> Color(858922), low |-> Color(1784395),
               mid |-> Color(3039601), high |-> Color(4886440),
               peak |-> Color(8308963)],
   thresholds |-> [deep |-> Decimal(-5, 10), low |-> Decimal(-2, 10),
                   mid |-> Decimal(1, 10), high |-> Decimal(4, 10)]]
Canyon ==
  [colors |-> [deep |-> Color(4073251), low |-> Color(7162945),
               mid |-> Color(10586239), high |-> Color(14142664),
               peak |-> Color(16747109)],
   thresholds |-> [deep |-> Decimal(-4, 10), low |-> Decimal(-15, 100),
                   mid |-> Decimal(2, 10), high |-> Decimal(55, 100)]]
Marsh ==
  [colors |-> [deep |-> Color(1781794), low |-> Color(3033658),
               mid |-> Color(4876097), high |-> Color(7048782),
               peak |-> Color(9159498)],
   thresholds |-> [deep |-> Decimal(-25, 100), low |-> Decimal(5, 100),
                   mid |-> Decimal(25, 100), high |-> Decimal(5, 10)]]

\* BIOMES: the presets by biomeType, with the parameters of the generation.
BIOMES ==
  [grassland |-> [heightScale |-> 8, noiseScale |-> Decimal(8, 100), octaves |-> 4,
                  colors |-> Grassland.colors, thresholds |-> Grassland.thresholds],
   desert |-> [heightScale |-> 6, noiseScale |-> Decimal(6, 100), octaves |-> 3,
               colors |-> Desert.colors, thresholds |-> Desert.thresholds],
   tundra |-> [heightScale |-> 5, noiseScale |-> Decimal(5, 100), octaves |-> 5,
               colors |-> Tundra.colors, thresholds |-> Tundra.thresholds],
   volcanic |-> [heightScale |-> 12, noiseScale |-> Decimal(7, 100), octaves |-> 4,
                 colors |-> Volcanic.colors, thresholds |-> Volcanic.thresholds],
   ocean |-> [heightScale |-> 15, noiseScale |-> Decimal(4, 100), octaves |-> 5,
              colors |-> Ocean.colors, thresholds |-> Ocean.thresholds],
   alien |-> [heightScale |-> 10, noiseScale |-> Decimal(9, 100), octaves |-> 4,
              colors |-> Alien.colors, thresholds |-> Alien.thresholds],
   canyon |-> [heightScale |-> 18, noiseScale |-> Decimal(5, 100), octaves |-> 6,
               colors |-> Canyon.colors, thresholds |-> Canyon.thresholds],
   marsh |-> [heightScale |-> 3, noiseScale |-> Decimal(1, 10), octaves |-> 5,
              colors |-> Marsh.colors, thresholds |-> Marsh.thresholds]]

\* BIOMES[biomeType] || BIOMES.grassland
BiomeTypes == DOMAIN BIOMES \cup {"unknown"}
BiomeOf(biomeType) ==
  IF biomeType \in DOMAIN BIOMES THEN BIOMES[biomeType] ELSE BIOMES.grassland

\* A custom biome: narrow bands next to -1 and 1, black and white stops.
Custom ==
  [colors |-> [deep |-> Color(0), low |-> Color(16777215),
               mid |-> Color(255), high |-> Color(16711680),
               peak |-> Color(16777215)],
   thresholds |-> [deep |-> Decimal(-9, 10), low |-> Decimal(-8, 10),
                   mid |-> Decimal(5, 10), high |-> Decimal(95, 100)]]

Biomes == { Grassland, Volcanic, Alien, Custom }

\* Degenerate configurations: the grassland preset with two adjacent
\* thresholds equal (deep = low, low = mid, mid = high), with all four equal,
\* and with the last threshold at 1.
ZeroWidthBiomes ==
  { [Grassland EXCEPT !.thresholds.low = Grassland.thresholds.deep],
    [Grassland EXCEPT !.thresholds.mid = Grassland.thresholds.low],
    [Grassland EXCEPT !.thresholds.high = Grassland.thresholds.mid],
    [Grassland EXCEPT !.thresholds.deep = 0, !.thresholds.mid = 0,
                      !.thresholds.high = 0] }
HighAtOne == [Grassland EXCEPT !.thresholds.high = One]

\* Math.min and Math.max
MathMinFirst(a, b) == a
MathMin(a, b) == IF a < b THEN a ELSE b
MathMax(a, b) == IF a > b THEN a ELSE b

\* The interpolation position of a band [lo, hi):  (h - lo) / (hi - lo)
BandTFromZero(h, lo, hi) == FDiv(h, hi - lo)
BandT(h, lo, hi) == FDiv(h - lo, hi - lo)

\* The interpolation position of the last band:
\* Math.min((h - thresholds.high) / (1 - thresholds.high), 1)
TopTWide(h, thresholds) ==
  MathMin(FDiv(h - thresholds.high, One - thresholds.mid), One)
TopT(h, thresholds) ==
  LET n == h - thresholds.high
      d == One - thresholds.high
  IN  IF d # 0 THEN MathMin(FDiv(n, d), One)
      ELSE IF n = 0 THEN "NaN"            \* Math.min(NaN, 1)
      ELSE IF n > 0 THEN One              \* Math.min(Infinity, 1)
      ELSE "-Infinity"                    \* Math.min(-Infinity, 1)

\* color.lerp(target, t) where t came from a division by zero and is NaN
\* (numerator n zero) or an infinity: color + (target - color) * t is NaN in
\* a channel where t is NaN or the two stops agree (0 * Infinity) and an
\* infinity elsewhere.
LerpNonFinite(color, target, n) ==
  [c \in Channels |->
     IF n = 0 \/ target[c] = color[c] THEN "NaN"
     ELSE IF (n > 0) = (target[c] > color[c]) THEN "Infinity"
     ELSE "-Infinity"]

\* A branch of getVertexColor that interpolates in a band [lo, hi): the band
\* k, the position t, the operands div of the division (numerator, divisor)
\* and the returned colour.
Band(k, h, lo, hi, from, to) ==
  LET t == BandT(h, lo, hi)
  IN  [band |-> k, t |-> t, div |-> <<h - lo, hi - lo>>,
       color |-> IF hi - lo = 0 THEN LerpNonFinite(from, to, h - lo)
                 ELSE Lerp(from, to, t)]

\* The last branch of getVertexColor.
TopBand(h, thresholds, colors) ==
  LET t == TopT(h, thresholds)
      n == h - thresholds.high
      d == One - thresholds.high
  IN  [band |-> 4, t |-> t, div |-> <<n, d>>,
       color |-> IF d = 0 /\ n <= 0
                 THEN LerpNonFinite(colors.high, colors.peak, n)
                 ELSE Lerp(colors.high, colors.peak, t)]

\* The first branch of getVertexColor: no division.
Bottom(colors) == [band |-> 0, t |-> 0, div |-> <<>>, color |-> colors.deep]

\* getVertexColor with inclusive upper bounds of the bands.
VertexColorInclusive(height, b) ==
  LET colors == b.colors
      thresholds == b.thresholds
      h == height
  IN  IF h <= thresholds.deep THEN Bottom(colors)
      ELSE IF h <= thresholds.low THEN
        Band(1, h, thresholds.deep, thresholds.low, colors.deep, colors.low)
      ELSE IF h <= thresholds.mid THEN
        Band(2, h, thresholds.low, thresholds.mid, colors.low, colors.mid)
      ELSE IF h <= thresholds.high THEN
        Band(3, h, thresholds.mid, thresholds.high, colors.mid, colors.high)
      ELSE TopBand(h, thresholds, colors)

\* getVertexColor with bands that include both of their ends.
VertexColorClosedBands(height, b) ==
  LET colors == b.colors
      thresholds == b.thresholds
      h == height
  IN  IF h < thresholds.deep THEN Bottom(colors)
      ELSE IF h <= thresholds.low THEN
        Band(1, h, thresholds.deep, thresholds.low, colors.deep, colors.low)
      ELSE IF h <= thresholds.mid THEN
        Band(2, h, thresholds.low, thresholds.mid, colors.low, colors.mid)
      ELSE IF h <= thresholds.high THEN
        Band(3, h, thresholds.mid, thresholds.high, colors.mid, colors.high)
      ELSE TopBand(h, thresholds, colors)

\* getVertexColor(height, biome): the branch taken (band 0 to 4), the
\* position t it computes (none in band 0, written 0), the operands of its
\* division (none in band 0) and the returned colour.
VertexColor(height, b) ==
  LET colors == b.colors
      thresholds == b.thresholds
      h == height
  IN  IF h < thresholds.deep THEN Bottom(colors)
      ELSE IF h < thresholds.low THEN
        Band(1, h, thresholds.deep, thresholds.low, colors.deep, colors.low)
      ELSE IF h < thresholds.mid THEN
        Band(2, h, thresholds.low, thresholds.mid, colors.low, colors.mid)
      ELSE IF h < thresholds.high THEN
        Band(3, h, thresholds.mid, thresholds.high, colors.mid, colors.high)
      ELSE TopBand(h, thresholds, colors)

\* Heights passed to getVertexColor: -2, 3/2 and 3, the sixteenths from -1
\* to 1, and each threshold of the biome with its two neighbours.
HeightStep == 16
Heights(b) ==
  { ToFixed(-2), Decimal(3, 2), ToFixed(3) }
    \cup { Decimal(k, HeightStep) : k \in (-HeightStep)..HeightStep }
    \cup { b.thresholds[x] + d : x \in {"deep", "low", "mid", "high"},
                                 d \in {-1, 0, 1} }

NoShade == [op |-> "none"]

\* Math.max(-1, Math.min(1, height))
Clamp(height) == MathMax(-One, MathMin(One, height))

\* The call sites: TerrainMesh with the default resolution 64 and size 50
\* (the vertex i, k of the plane is at x = 50 * i / 64 - 25, z likewise),
\* TerrainOverlay with its 120 x 120 pixels.
Resolution == 64
Size == 50
MeshPosition(i) == Decimal(Size * i, Resolution) - Decimal(Size, 2)
OverlaySize == 120
OverlayCoord(x, noiseScale) ==
  FMul((Decimal(x, OverlaySize) - Half) * 2, noiseScale) * 50

\* The vertices and pixels that are computed, and the seed of the terrain.
MeshVertices == { <<36, 28>>, <<0, 0>>, <<32, 32>>, <<64, 17>> }
OverlayPixels == { <<0, 0>>, <<60, 60>>, <<119, 7>> }
TerrainSeeds == { NumSeed(0, 724) }

NoVertex == [site |-> "none"]

\* The THREE.Color objects of a biome configuration: its stops colors.deep,
\* colors.low, colors.mid, colors.high and colors.peak are the objects 1..5.
StopNames == <<"deep", "low", "mid", "high", "peak">>
StopObjects(b) == [k \in 1..5 |-> b.colors[StopNames[k]]]
ColorsOf(h) == [x \in {"deep", "low", "mid", "high", "peak"} |->
                  h[CHOOSE k \in 1..5 : StopNames[k] = x]]

\* color.clone(): a new object with the channels of the object ref; its
\* reference is the next unused one.
Clone(h, ref) == Append(h, h[ref])

\* color.lerp(target, alpha): the object ref is changed in place.
LerpInPlace(h, ref, target, alpha) ==
  [h EXCEPT ![ref] = Lerp(h[ref], h[target], alpha)]

\* The stop a branch of getVertexColor clones and the stop it moves towards.
CloneOf(band) == IF band = 0 THEN 1 ELSE band
LerpTo(band) == band + 1

\* The number of getVertexColor results that are followed as objects, and
\* the heights they are computed for: -2 (below every threshold), the first
\* threshold, a third of the way from low to mid, just below high, 1 and 3.
MaxResults == 3
ResultHeights(b) ==
  { ToFixed(-2), b.thresholds.deep,
    b.thresholds.low + ((b.thresholds.mid - b.thresholds.low) \div 3),
    b.thresholds.high - 1, One, ToFixed(3) }

\* Callers with a noise query in flight, and a caller with none.
Callers == {1, 2}
Idle ==
  [pc |-> "idle", op |-> "none", n |-> 0, x |-> 0, y |-> 0, octaves |-> 0,
   lacunarity |-> 0, persistence |-> 0, i |-> 0, v |-> FractalStart,
   ret |-> 0]

(***************************************************************************)
(* State.                                                                  *)
(*   seedIn  the seed value both generation runs are given                 *)
(*   rng     per run, the SeededRNG object: fields seed and state          *)
(*   pos     per run, the number of draws since construction or reset()    *)
(*   log     per run, the calls that returned a value, oldest first:       *)
(*           op, k (index of the draw in the stream), from (state before   *)
(*           the call), u (integer drawn), min, max, ret (returned double  *)
(*           times 2^32)                                                   *)
(*   obj     per SeededNoise object: pc ("none" before new SeededNoise,    *)
(*           "shuffle" inside the constructor's shuffle loop, "done" once  *)
(*           constructed), from (the run whose rng was passed in), start   *)
(*           and entry (that generator's draw count and state when the     *)
(*           constructor was entered), i (the                              *)
(*           loop index of the next shuffle step), j (the index drawn by   *)
(*           the last shuffle step), p, perm, permMod12 (the arrays, as    *)
(*           functions on 0..255 and 0..511)                               *)
(*   cur     the SeededNoise object whose constructor is running, 0 when   *)
(*           none is (the program is single-threaded: a constructor runs   *)
(*           to completion before any other call)                          *)
(*   out     the last noise2D / fractalNoise call and its return value     *)
(*   call    per caller, the noise query it has in flight: pc ("idle",     *)
(*           "running", "returned"), op, the object n and the arguments,   *)
(*           the loop index i and loop variables v of fractalNoise, and    *)
(*           the returned value ret                                        *)
(*   biome   the biome configuration handed to getVertexColor              *)
(*   shade   the last getVertexColor call: height, the band and position   *)
(*           t of the branch taken, the operands div of its division and   *)
(*           the returned colour; ref, the THREE.Color object returned,    *)
(*           where the objects are followed                                *)
(*   vert    the last iteration of a colourizing loop: site (TerrainMesh   *)
(*           or TerrainOverlay), the vertex or pixel at, the values of     *)
(*           fractalNoise and of the detail term, their sum raw, the       *)
(*           clamped height, the Y position y (mesh) and the colour        *)
(*   heap    the THREE.Color objects, by reference 1, 2, ...: the five     *)
(*           stops of the biome configuration first, then the objects      *)
(*           that clone() has created                                      *)
(***************************************************************************)
VARIABLES seedIn, rng, pos, log, obj, cur, out, call, biome, shade, heap, vert

vars == <<seedIn, rng, pos, log, obj, cur, out, call, biome, shade, heap, vert>>
noiseVars == <<obj, cur, out>>
colorVars == <<biome, shade, heap, vert>>

InitRuns ==
  /\ rng = [r \in Inst |-> SeededRNG(seedIn)]
  /\ pos = [r \in Inst |-> 0]
  /\ log = [r \in Inst |-> <<>>]
  /\ obj = [n \in NoiseIds |-> NoObject]
  /\ cur = 0
  /\ out = NoCall
  /\ call = [c \in Callers |-> Idle]
  /\ shade = NoShade
  /\ heap = StopObjects(biome)
  /\ vert = NoVertex

Init ==
  /\ seedIn \in Seeds
  /\ biome = Grassland
  /\ InitRuns

\* next() on a state field shared by every SeededRNG object.
nextShared(r) ==
  /\ cur = 0
  /\ Len(log[1]) + Len(log[2]) < MaxLog
  /\ rng' = [q \in Inst |-> [rng[q] EXCEPT !.state = Advance(rng[r].state)]]
  /\ pos' = [pos EXCEPT ![r] = pos[r] + 1]
  /\ log' = [log EXCEPT ![r] = Append(log[r],
               [op |-> "next", k |-> pos[r] + 1, from |-> rng[r].state,
                u |-> NextValue(rng[r].state), min |-> <<0, 0>>,
                max |-> <<0, 0>>,
                ret |-> WordToBig(NextValue(rng[r].state))])]
  /\ UNCHANGED <<seedIn, noiseVars, call, colorVars>>

\* rng.next()
next(r) ==
  /\ cur = 0
  /\ Len(log[1]) + Len(log[2]) < MaxLog
  /\ rng' = [rng EXCEPT ![r].state = Advance(rng[r].state)]
  /\ pos' = [pos EXCEPT ![r] = pos[r] + 1]
  /\ log' = [log EXCEPT ![r] = Append(log[r],
               [op |-> "next", k |-> pos[r] + 1, from |-> rng[r].state,
                u |-> NextValue(rng[r].state), min |-> <<0, 0>>,
                max |-> <<0, 0>>,
                ret |-> WordToBig(NextValue(rng[r].state))])]
  /\ UNCHANGED <<seedIn, noiseVars, call, colorVars>>

\* rng.range(min, max)
range(r, min, max) ==
  /\ cur = 0
  /\ Len(log[1]) + Len(log[2]) < MaxLog
  /\ rng' = [rng EXCEPT ![r].state = Advance(rng[r].state)]
  /\ pos' = [pos EXCEPT ![r] = pos[r] + 1]
  /\ log' = [log EXCEPT ![r] = Append(log[r],
               [op |-> "range", k |-> pos[r] + 1, from |-> rng[r].state,
                u |-> NextValue(rng[r].state), min |-> min, max |-> max,
                ret |-> RangeValue(min, max, NextValue(rng[r].state))])]
  /\ UNCHANGED <<seedIn, noiseVars, call, colorVars>>

\* reset() with the assignment the wrong way round.
resetSwapped(r) ==
  /\ cur = 0
  /\ rng' = [rng EXCEPT ![r].seed = StateWord(rng[r].state)]
  /\ pos' = [pos EXCEPT ![r] = 0]
  /\ UNCHANGED <<seedIn, log, noiseVars, call, colorVars>>

\* rng.reset()
reset(r) ==
  /\ cur = 0
  /\ rng' = [rng EXCEPT ![r].state = WordToBig(rng[r].seed)]
  /\ pos' = [pos EXCEPT ![r] = 0]
  /\ UNCHANGED <<seedIn, log, noiseVars, call, colorVars>>

\* FarDraws consecutive rng.next() calls whose values the caller drops.
\* While the state stays below 2^53 every one of the additions is exact, so
\* the block as a whole adds FarDraws * 0x6D2B79F5.  The model takes such a
\* block only on a fresh or freshly reset generator.
discard(r) ==
  LET far == AddBig(rng[r].state,
                    MulWW(<<FarDraws \div B, FarDraws % B>>, Increment))
  IN  /\ cur = 0
      /\ pos[r] = 0
      /\ LessBig(far, <<32, 0, 0, 0>>)
      /\ rng' = [rng EXCEPT ![r].state = far]
      /\ pos' = [pos EXCEPT ![r] = pos[r] + FarDraws]
      /\ UNCHANGED <<seedIn, log, noiseVars, call, colorVars>>

\* A constructor that calls rng.reset() before it shuffles.
constructResetting(n, r) ==
  /\ cur = 0
  /\ obj[n].pc = "none"
  /\ \A m \in NoiseIds : m < n => obj[m].pc = "done"
  /\ obj' = [obj EXCEPT ![n] =
               [pc |-> "shuffle", from |-> r, start |-> 0,
                entry |-> WordToBig(rng[r].seed), i |-> 255, j |-> 0,
                p |-> Identity, perm |-> <<>>, permMod12 |-> <<>>]]
  /\ rng' = [rng EXCEPT ![r].state = WordToBig(rng[r].seed)]
  /\ pos' = [pos EXCEPT ![r] = 0]
  /\ cur' = n
  /\ out' = NoCall
  /\ UNCHANGED <<seedIn, log, call, colorVars>>

\* new SeededNoise(rng) up to the shuffle loop: the arrays are allocated and
\* p is set to the identity.  Objects are created in the order of NoiseIds.
construct(n, r) ==
  /\ cur = 0
  /\ obj[n].pc = "none"
  /\ \A m \in NoiseIds : m < n => obj[m].pc = "done"
  /\ obj' = [obj EXCEPT ![n] =
               [pc |-> "shuffle", from |-> r, start |-> pos[r],
                entry |-> rng[r].state, i |-> 255, j |-> 0,
                p |-> Identity, perm |-> <<>>, permMod12 |-> <<>>]]
  /\ cur' = n
  /\ out' = NoCall
  /\ UNCHANGED <<seedIn, rng, pos, log, call, colorVars>>

\* The shuffle step on a generator state that all SeededRNG objects share.
shuffleShared ==
  /\ cur # 0
  /\ obj[cur].i > 0
  /\ LET o == obj[cur]
         r == o.from
         j == FloorScale(NextValue(rng[r].state), o.i + 1)
     IN  /\ rng' = [q \in Inst |-> [rng[q] EXCEPT !.state = Advance(rng[r].state)]]
         /\ pos' = [pos EXCEPT ![r] = pos[r] + 1]
         /\ obj' = [obj EXCEPT ![cur] =
                      [o EXCEPT !.p = Swap(o.p, o.i, j), !.j = j,
                                !.i = o.i - 1]]
  /\ UNCHANGED <<seedIn, log, cur, out, call, colorVars>>

\* One iteration of the Fisher-Yates loop of the constructor.
shuffle ==
  /\ cur # 0
  /\ obj[cur].i > 0
  /\ LET o == obj[cur]
         r == o.from
         j == FloorScale(NextValue(rng[r].state), o.i + 1)
     IN  /\ rng' = [rng EXCEPT ![r].state = Advance(rng[r].state)]
         /\ pos' = [pos EXCEPT ![r] = pos[r] + 1]
         /\ obj' = [obj EXCEPT ![cur] =
                      [o EXCEPT !.p = Swap(o.p, o.i, j), !.j = j,
                                !.i = o.i - 1]]
  /\ UNCHANGED <<seedIn, log, cur, out, call, colorVars>>

\* The rest of the constructor, with one more draw taken from the generator.
fillDrawing ==
  /\ cur # 0
  /\ obj[cur].i = 0
  /\ obj' = [obj EXCEPT ![cur] =
               [obj[cur] EXCEPT !.pc = "done", !.perm = PermOf(obj[cur].p),
                                !.permMod12 = PermMod12Of(PermOf(obj[cur].p))]]
  /\ cur' = 0
  /\ rng' = [rng EXCEPT ![obj[cur].from].state = Advance(rng[obj[cur].from].state)]
  /\ pos' = [pos EXCEPT ![obj[cur].from] = pos[obj[cur].from] + 1]
  /\ UNCHANGED <<seedIn, log, out, call, colorVars>>

\* The rest of the constructor: perm and permMod12 are filled.
fill ==
  /\ cur # 0
  /\ obj[cur].i = 0
  /\ obj' = [obj EXCEPT ![cur] =
               [obj[cur] EXCEPT !.pc = "done", !.perm = PermOf(obj[cur].p),
                                !.permMod12 = PermMod12Of(PermOf(obj[cur].p))]]
  /\ cur' = 0
  /\ UNCHANGED <<seedIn, rng, pos, log, out, call, colorVars>>

Next ==
  \/ \E r \in Inst : next(r)
  \/ \E r \in Inst : \E a \in RangeArgs : range(r, a[1], a[2])
  \/ \E r \in Inst : reset(r)
  \/ \E r \in Inst : discard(r)

Spec == Init /\ [][Next]_vars

\* noise.noise2D(x, y) on a constructed object
noise2D(n, x, y) ==
  /\ cur = 0
  /\ obj[n].pc = "done"
  /\ out' = [op |-> "noise2D", n |-> n, x |-> x, y |-> y, octaves |-> 0,
             lacunarity |-> 0, persistence |-> 0,
             ret |-> Noise2DValue(obj[n], x, y)]
  /\ UNCHANGED <<seedIn, rng, pos, log, obj, cur, call, colorVars>>

\* noise.fractalNoise(x, y, octaves, lacunarity, persistence) on a
\* constructed object
fractalNoise(n, x, y, octaves, lacunarity, persistence) ==
  /\ cur = 0
  /\ obj[n].pc = "done"
  /\ out' = [op |-> "fractalNoise", n |-> n, x |-> x, y |-> y,
             octaves |-> octaves, lacunarity |-> lacunarity,
             persistence |-> persistence,
             ret |-> FractalValue(obj[n], x, y, octaves, lacunarity, persistence)]
  /\ UNCHANGED <<seedIn, rng, pos, log, obj, cur, call, colorVars>>

\* The generation runs: SeededNoise objects are constructed from the runs'
\* generators, which may be reset in between, and queried.  A query changes
\* nothing but out, so every state a sequence of queries reaches is reached
\* by its last query alone: a query is taken where out is still empty.
InitNoise == Init /\ seedIn \in NoiseSeeds

NextNoise ==
  \/ \E n \in NoiseIds : \E r \in Inst : construct(n, r)
  \/ shuffle
  \/ fill
  \/ \E r \in Inst : reset(r)
  \/ \E n \in NoiseIds : \E c \in Coords \cup FarCoords :
       out = NoCall /\ noise2D(n, c[1], c[2])
  \/ \E n \in NoiseIds : \E c \in Coords : \E k \in Octaves :
       \E l \in Lacunarities : \E q \in Persistences :
         out = NoCall /\ fractalNoise(n, c[1], c[2], k, l, q)

SpecNoise == InitNoise /\ [][NextNoise]_vars

\* A caller enters noise.noise2D(x, y) on a constructed object.
callNoise2D(c, n, x, y) ==
  /\ cur = 0
  /\ call[c].pc = "idle"
  /\ obj[n].pc = "done"
  /\ call' = [call EXCEPT ![c] =
                [Idle EXCEPT !.pc = "running", !.op = "noise2D", !.n = n,
                             !.x = x, !.y = y]]
  /\ UNCHANGED <<seedIn, rng, pos, log, noiseVars, colorVars>>

\* A caller enters noise.fractalNoise(x, y, octaves, lacunarity, persistence)
\* on a constructed object: the loop variables are initialised.
callFractalNoise(c, n, x, y, octaves, lacunarity, persistence) ==
  /\ cur = 0
  /\ call[c].pc = "idle"
  /\ obj[n].pc = "done"
  /\ call' = [call EXCEPT ![c] =
                [Idle EXCEPT !.pc = "running", !.op = "fractalNoise", !.n = n,
                             !.x = x, !.y = y, !.octaves = octaves,
                             !.lacunarity = lacunarity,
                             !.persistence = persistence]]
  /\ UNCHANGED <<seedIn, rng, pos, log, noiseVars, colorVars>>

\* One iteration of the loop of fractalNoise that also writes the table it
\* samples.
octaveWriting(c) ==
  LET q == call[c]
  IN  /\ cur = 0
      /\ q.pc = "running" /\ q.op = "fractalNoise"
      /\ q.i < q.octaves
      /\ call' = [call EXCEPT ![c] =
                    [q EXCEPT !.i = q.i + 1,
                              !.v = FractalStep(obj[q.n], q.x, q.y, q.lacunarity,
                                                q.persistence, q.v)]]
      /\ obj' = [obj EXCEPT ![q.n].perm = [k \in 0..511 |-> obj[q.n].perm[511 - k]]]
      /\ UNCHANGED <<seedIn, rng, pos, log, cur, out, colorVars>>

\* The loop of fractalNoise entered once before its condition is tested.
octaveAtLeastOnce(c) ==
  LET q == call[c]
  IN  /\ cur = 0
      /\ q.pc = "running" /\ q.op = "fractalNoise"
      /\ q.i < q.octaves \/ q.i = 0
      /\ call' = [call EXCEPT ![c] =
                    [q EXCEPT !.i = q.i + 1,
                              !.v = FractalStep(obj[q.n], q.x, q.y, q.lacunarity,
                                                q.persistence, q.v)]]
      /\ UNCHANGED <<seedIn, rng, pos, log, noiseVars, colorVars>>

\* One iteration of the loop of fractalNoise of a call in flight.
octave(c) ==
  LET q == call[c]
  IN  /\ cur = 0
      /\ q.pc = "running" /\ q.op = "fractalNoise"
      /\ q.i < q.octaves
      /\ call' = [call EXCEPT ![c] =
                    [q EXCEPT !.i = q.i + 1,
                              !.v = FractalStep(obj[q.n], q.x, q.y, q.lacunarity,
                                                q.persistence, q.v)]]
      /\ UNCHANGED <<seedIn, rng, pos, log, noiseVars, colorVars>>

\* The call in flight returns: noise2D its value, fractalNoise
\* total / maxValue once the loop has ended.
return(c) ==
  LET q == call[c]
  IN  /\ cur = 0
      /\ q.pc = "running"
      /\ q.op = "fractalNoise" => q.i >= q.octaves
      /\ call' = [call EXCEPT ![c] =
                    [q EXCEPT !.pc = "returned",
                              !.ret = IF q.op = "noise2D"
                                      THEN Noise2DValue(obj[q.n], q.x, q.y)
                                      ELSE FDiv(q.v.total, q.v.maxValue)]]
      /\ UNCHANGED <<seedIn, rng, pos, log, noiseVars, colorVars>>

\* Queries in flight: one object is constructed; then two callers query it,
\* and while a call is in flight the generator that built the object is
\* drawn from and reset.  A call is interleaved with the other caller's and
\* with the generator's calls between its entry, its loop iterations and its
\* return.  Caller c samples the point FlightCoords[c] with an octave count
\* of FlightOctaves[c]: the largest count, or none (0 for the first caller,
\* -1 for the second).
InFlight(r) ==
  /\ obj[1].pc = "done" /\ obj[1].from = r
  /\ \E c \in Callers : call[c].pc = "running"

FlightCoords == << <<1228, 2867>>, <<-6144, 9216>> >>
FlightRange == << <<0, 0>>, <<0, 100>> >>
FlightLacunarity == 2 * Q
FlightPersistence == Q \div 2
FlightOctaves == << {0, MaxOctaves}, {-1, MaxOctaves} >>

NextQueries ==
  \/ \E r \in Inst : construct(1, r)
  \/ shuffle
  \/ fill
  \/ \E r \in Inst : InFlight(r) /\ next(r)
  \/ \E r \in Inst : InFlight(r) /\ range(r, FlightRange[1], FlightRange[2])
  \/ \E r \in Inst : InFlight(r) /\ reset(r)
  \/ \E c \in Callers : callNoise2D(c, 1, FlightCoords[c][1], FlightCoords[c][2])
  \/ \E c \in Callers : \E k \in FlightOctaves[c] :
       callFractalNoise(c, 1, FlightCoords[c][1], FlightCoords[c][2],
                        k, FlightLacunarity, FlightPersistence)
  \/ \E c \in Callers : octave(c)
  \/ \E c \in Callers : return(c)

SpecQueries == InitNoise /\ [][NextQueries]_vars

\* getVertexColor(height, biome)
getVertexColor(height) ==
  /\ shade' = [op |-> "getVertexColor", height |-> height,
               band |-> VertexColor(height, biome).band,
               t |-> VertexColor(height, biome).t,
               div |-> VertexColor(height, biome).div,
               color |-> VertexColor(height, biome).color]
  /\ UNCHANGED <<seedIn, rng, pos, log, noiseVars, call, biome, heap, vert>>

\* getVertexColor(height, biome) without clone(): the stop itself is
\* interpolated in place and returned.
getVertexColorInPlace(height) ==
  LET b   == [colors |-> ColorsOf(heap), thresholds |-> biome.thresholds]
      v   == VertexColor(height, b)
      ref == CloneOf(v.band)
  IN  /\ Len(heap) < 5 + MaxResults
      /\ heap' = IF v.band = 0 THEN Append(heap, heap[ref])
                 ELSE Append(LerpInPlace(heap, ref, LerpTo(v.band), v.t), heap[ref])
      /\ shade' = [op |-> "getVertexColor", height |-> height, band |-> v.band,
                   t |-> v.t, div |-> v.div, color |-> heap'[ref], ref |-> ref]
      /\ UNCHANGED <<seedIn, rng, pos, log, noiseVars, call, biome, vert>>

\* getVertexColor(height, biome) on the objects: the branch taken clones a
\* stop of the configuration, interpolates the clone towards the next stop
\* (Color.lerp changes its receiver) and returns the clone.
getVertexColorObject(height) ==
  LET b   == [colors |-> ColorsOf(heap), thresholds |-> biome.thresholds]
      v   == VertexColor(height, b)
      ref == Len(heap) + 1
  IN  /\ Len(heap) < 5 + MaxResults
      /\ heap' = IF v.band = 0 THEN Clone(heap, CloneOf(v.band))
                 ELSE LerpInPlace(Clone(heap, CloneOf(v.band)), ref,
                                  LerpTo(v.band), v.t)
      /\ shade' = [op |-> "getVertexColor", height |-> height, band |-> v.band,
                   t |-> v.t, div |-> v.div, color |-> heap'[ref], ref |-> ref]
      /\ UNCHANGED <<seedIn, rng, pos, log, noiseVars, call, biome, vert>>

\* Colouring: heights are colourized under one biome configuration.
InitColor ==
  /\ seedIn = NumSeed(0, 0)
  /\ biome \in Biomes
  /\ InitRuns

NextColor == \E h \in Heights(biome) : getVertexColor(h)

SpecColor == InitColor /\ [][NextColor]_vars

\* Colouring with the objects followed: getVertexColor is called up to
\* MaxResults times under one configuration and its results are kept.
NextObjects == \E h \in ResultHeights(biome) : getVertexColorObject(h)

SpecObjects == InitColor /\ [][NextObjects]_vars

\* The vertex loop of TerrainMesh without the clamp.
TerrainMeshUnclamped(i, k) ==
  LET noise   == obj[1]
      x       == MeshPosition(i)
      z       == MeshPosition(k)
      nx      == FMul(x, biome.noiseScale)
      nz      == FMul(z, biome.noiseScale)
      fractal == FractalValue(noise, nx, nz, biome.octaves, 2 * Q, Half)
      detail  == FMul(Noise2DValue(noise, nx * 3, nz * 3), Decimal(15, 100))
      height  == fractal + detail
      color   == VertexColor(height, biome)
  IN  /\ cur = 0
      /\ noise.pc = "done" /\ noise.from = 1
      /\ vert' = [site |-> "TerrainMesh", at |-> <<i, k>>, fractal |-> fractal,
                  detail |-> detail, raw |-> fractal + detail,
                  height |-> height, y |-> height * biome.heightScale,
                  color |-> color.color]
      /\ shade' = [op |-> "getVertexColor", height |-> height,
                   band |-> color.band, t |-> color.t, div |-> color.div,
                   color |-> color.color]
      /\ UNCHANGED <<seedIn, rng, pos, log, noiseVars, call, biome, heap>>

\* One iteration of the vertex loop of TerrainMesh: the height of the
\* vertex, its Y position and its colour.
TerrainMesh(i, k) ==
  LET noise   == obj[1]
      x       == MeshPosition(i)
      z       == MeshPosition(k)
      nx      == FMul(x, biome.noiseScale)
      nz      == FMul(z, biome.noiseScale)
      fractal == FractalValue(noise, nx, nz, biome.octaves, 2 * Q, Half)
      detail  == FMul(Noise2DValue(noise, nx * 3, nz * 3), Decimal(15, 100))
      height  == Clamp(fractal + detail)
      color   == VertexColor(height, biome)
  IN  /\ cur = 0
      /\ noise.pc = "done" /\ noise.from = 1
      /\ vert' = [site |-> "TerrainMesh", at |-> <<i, k>>, fractal |-> fractal,
                  detail |-> detail, raw |-> fractal + detail,
                  height |-> height, y |-> height * biome.heightScale,
                  color |-> color.color]
      /\ shade' = [op |-> "getVertexColor", height |-> height,
                   band |-> color.band, t |-> color.t, div |-> color.div,
                   color |-> color.color]
      /\ UNCHANGED <<seedIn, rng, pos, log, noiseVars, call, biome, heap>>

\* One iteration of the pixel loop of TerrainOverlay: the height and the
\* colour of the pixel (the bytes written are floor(channel * 255)).
TerrainOverlay(x, y) ==
  LET noise   == obj[2]
      nx      == OverlayCoord(x, biome.noiseScale)
      ny      == OverlayCoord(y, biome.noiseScale)
      fractal == FractalValue(noise, nx, ny, biome.octaves, 2 * Q, Half)
      height  == Clamp(fractal)
      color   == VertexColor(height, biome)
  IN  /\ cur = 0
      /\ noise.pc = "done" /\ noise.from = 2
      /\ vert' = [site |-> "TerrainOverlay", at |-> <<x, y>>,
                  fractal |-> fractal, detail |-> 0, raw |-> fractal,
                  height |-> height, y |-> 0,
                  color |-> [c \in Channels |-> Floor(color.color[c] * 255)]]
      /\ shade' = [op |-> "getVertexColor", height |-> height,
                   band |-> color.band, t |-> color.t, div |-> color.div,
                   color |-> color.color]
      /\ UNCHANGED <<seedIn, rng, pos, log, noiseVars, call, biome, heap>>

\* The two components for one seed and one biomeType: each builds its own
\* SeededRNG and SeededNoise (the mesh the objects 1, the overlay the
\* objects 2) and then runs its loop.
InitTerrain ==
  /\ seedIn \in TerrainSeeds
  /\ biome \in {BiomeOf(t) : t \in BiomeTypes}
  /\ InitRuns

NextTerrain ==
  \/ construct(1, 1)
  \/ construct(2, 2)
  \/ shuffle
  \/ fill
  \/ \E v \in MeshVertices : TerrainMesh(v[1], v[2])
  \/ \E p \in OverlayPixels : TerrainOverlay(p[1], p[2])

SpecTerrain == InitTerrain /\ [][NextTerrain]_vars

\* Colouring under a degenerate biome configuration.
InitDegenerate ==
  /\ seedIn = NumSeed(0, 0)
  /\ biome \in ZeroWidthBiomes \cup {HighAtOne}
  /\ InitRuns

SpecDegenerate == InitDegenerate /\ [][NextColor]_vars

(***************************************************************************)
(* Properties of SeededRNG                                                 *)
(***************************************************************************)
Entries(r) == { log[r][i] : i \in 1..Len(log[r]) }
IsUint16(a) == a \in 0..(B - 1)
LeqBig(x, y) == x = y \/ LessBig(x, y)
MinBig(e) == <<e.min[1], e.min[2], 0, 0>>
MaxBig(e) == <<e.max[1], e.max[2], 0, 0>>

\* C1: two generators constructed from the same seed return the same value
\* at the same position of their streams: the k-th draw of one equals the
\* k-th draw of the other.
C1_SameSeedSameSequence ==
  \A e \in Entries(1) : \A f \in Entries(2) : e.k = f.k => e.u = f.u

C1_Witness ==
  \E e \in Entries(1) : \E f \in Entries(2) :
    e.k = f.k /\ e.op = "next" /\ f.op = "next"

\* C2: reset() puts the state back to the value it had right after
\* construction, and a draw made at stream position k after a reset returns
\* what the draw at position k returned before it.
C2_ResetFidelity ==
  \A r \in Inst :
    /\ pos[r] = 0 => rng[r].state = WordToBig(hashString(seedIn))
    /\ \A i, j \in 1..Len(log[r]) :
         log[r][i].k = log[r][j].k => log[r][i].u = log[r][j].u

C2_Witness ==
  \E r \in Inst : \E i, j \in 1..Len(log[r]) :
    i < j /\ log[r][i].k = log[r][j].k

\* C3: the seed hash is never 0, for a string or a number seed, and the
\* number seed 0 is hashed to 1.
C3_HashNeverZero ==
  \A r \in Inst :
    /\ rng[r].seed # <<0, 0>>
    /\ seedIn = NumSeed(0, 0) => rng[r].seed = <<0, 1>>

\* C4: for an integer seed n the saved seed is n mod 2^32 as an unsigned
\* value (a word in range that differs from n by a multiple of 2^32), and a
\* generator that has drawn nothing has that value as its state.
C4_IntegerSeedIsLow32Bits ==
  \A r \in Inst :
    seedIn.type = "number" =>
      /\ IsUint16(rng[r].seed[1]) /\ IsUint16(rng[r].seed[2])
      /\ rng[r].seed[2] = seedIn.num[2]
      /\ (seedIn.num[1] - rng[r].seed[1]) % B = 0
      /\ pos[r] = 0 => rng[r].state = <<0, 0, rng[r].seed[1], rng[r].seed[2]>>

C4_Witness ==
  /\ seedIn = NumSeed(-1, 65535)
  /\ rng[1].seed = <<65535, 65535>>
  /\ pos[1] = 0 /\ log[1] # <<>>

\* acc = wrap32signed(31 * acc + c), folded left to right from 0.
RECURSIVE Fold31(_)
Fold31(cs) ==
  IF cs = <<>> THEN <<0, 0>>
  ELSE CHOOSE a \in {ToInt32(AddW(Imul(acc, <<0, 31>>), <<0, cs[Len(cs)]>>)) :
                       acc \in {Fold31(SubSeq(cs, 1, Len(cs) - 1))}} : TRUE

\* C5: for a string seed the hash is abs(acc), or 1 when acc is 0, acc being
\* the 31-fold of the character codes; it lies in 1..2^31 and the empty string
\* hashes to 1.
C5_StringHash ==
  \A r \in Inst :
    seedIn.type = "string" =>
      LET acc == Fold31(seedIn.chars)
          h   == rng[r].seed
      IN  /\ h = IF acc = <<0, 0>> THEN <<0, 1>> ELSE AbsW(acc)
          /\ h # <<0, 0>>
          /\ h[1] \in 0..HalfB /\ IsUint16(h[2])
          /\ h[1] = HalfB => h[2] = 0
          /\ seedIn.chars = <<>> => h = <<0, 1>>

C5_Witness ==
  /\ seedIn.type = "string"
  /\ Fold31(seedIn.chars) = <<-HalfB, 0>>
  /\ rng[1].seed = <<HalfB, 0>>

\* C6: every next() returns u / 2^32 for an integer u in 0..2^32-1: a value
\* that is at least 0 and below 1.
C6_NextInUnitInterval ==
  \A r \in Inst : \A e \in Entries(r) :
    /\ IsUint16(e.u[1]) /\ IsUint16(e.u[2])
    /\ e.op = "next" =>
         /\ e.ret = <<0, 0, e.u[1], e.u[2]>>
         /\ LessBig(e.ret, <<0, 1, 0, 0>>)

C6_Witness ==
  \E r \in Inst : \E e \in Entries(r) :
    e.op = "next" /\ e.u[1] >= HalfB /\ e.k > FarDraws

\* State of the reference Mulberry32 generator after k draws from seed:
\* (seed + k * 0x6D2B79F5) mod 2^32.
Mulberry32State(seed, k) ==
  StateWord(AddBig(WordToBig(seed), MulWW(<<k \div B, k % B>>, Increment)))

\* C7: the k-th value of next() is the k-th value of the reference
\* Mulberry32 generator, whose state is a 32-bit unsigned integer advanced
\* with wrapping addition.
C7_EqualsMulberry32 ==
  \A r \in Inst : \A e \in Entries(r) :
    e.u = Temper(Mulberry32State(rng[r].seed, e.k))

\* C8 as stated: range(min, max) with min < max returns a value that is at
\* least min and below max.
C8_RangeBelowMax ==
  \A r \in Inst : \A e \in Entries(r) :
    e.op = "range" => LeqBig(MinBig(e), e.ret) /\ LessBig(e.ret, MaxBig(e))

\* C8 amended: a range(min, max) call advances the state exactly as one
\* next() does and returns the double nearest to min + u * (max - min), u
\* being the draw next() makes from the same state; the result is at least
\* min and at most max, below max whenever that sum is itself a double, and
\* range(0, 100) returns u * 100 / 2^32.
C8_RangeOneDraw ==
  [][\A r \in Inst :
       (Len(log'[r]) = Len(log[r]) + 1 /\ log'[r][Len(log'[r])].op = "range")
       => LET e     == log'[r][Len(log'[r])]
              exact == AddBig(MinBig(e), MulWW(e.u, SubW(e.max, e.min)))
          IN  /\ rng'[r].state = Advance(rng[r].state)
              /\ pos'[r] = pos[r] + 1
              /\ e.u = Temper(StateWord(rng'[r].state))
              /\ e.ret = RoundDouble(exact)
              /\ LeqBig(MinBig(e), e.ret) /\ LeqBig(e.ret, MaxBig(e))
              /\ exact[1] < 32 => LessBig(e.ret, MaxBig(e))
              /\ (e.min = <<0, 0>> /\ e.max = <<0, 100>>)
                   => e.ret = MulWW(e.u, <<0, 100>>)]_vars

C8_Witness ==
  \E r \in Inst : \E e \in Entries(r) :
    e.op = "range" /\ e.min = <<16384, 0>> /\ e.ret = MaxBig(e)

(***************************************************************************)
(* Properties of SeededNoise                                               *)
(***************************************************************************)
\* C9: during the shuffle and after the constructor has finished, the table
\* holds every value 0..255 exactly once, and every shuffle step swaps index
\* i with an index j such that 0 <= j <= i.
C9_PermutationValid ==
  \A n \in NoiseIds :
    /\ obj[n].pc \in {"shuffle", "done"} =>
         {obj[n].p[k] : k \in 0..255} = 0..255
    /\ (obj[n].pc \in {"shuffle", "done"} /\ obj[n].i < 255) =>
         (0 <= obj[n].j /\ obj[n].j <= obj[n].i + 1)
    /\ obj[n].pc = "done" =>
         /\ {obj[n].perm[k] : k \in 0..255} = 0..255
         /\ \A k \in 0..255 : obj[n].perm[k] = obj[n].p[k]

C9_Witness ==
  /\ obj[2].pc = "done"
  /\ pos[obj[2].from] = 510
  /\ obj[2].perm # obj[1].perm

\* C10: fractalNoise(x, y, 1, L, P) returns what noise2D(x, y) returns on the
\* same object, for every lacunarity L and persistence P.
C10_SingleOctaveIsNoise2D ==
  (out.op = "fractalNoise" /\ out.octaves = 1) =>
    out.ret = Noise2DValue(obj[out.n], out.x, out.y)

C10_Witness ==
  /\ out.op = "fractalNoise" /\ out.octaves = 1
  /\ out.lacunarity = 3 * Q /\ out.persistence = Q \div 2
  /\ out.ret # 0

(***************************************************************************)
(* Properties of getVertexColor                                            *)
(***************************************************************************)
Shaded == shade.op = "getVertexColor"

Abs(v) == IF v < 0 THEN -v ELSE v
Stops == {"deep", "low", "mid", "high"}
StopBelow(x) ==
  CASE x = "low" -> "deep" [] x = "mid" -> "low" [] x = "high" -> "mid"
    [] OTHER -> "deep"

\* C12: getVertexColor has no jump at a threshold X: at height thresholds.X
\* the colour is stop X; the band below reaches stop X at position t = 1; and
\* one height unit below thresholds.X the colour is within the band's slope
\* (the distance of the two stops over the width of the band) of stop X.
C12_ContinuousAtThresholds ==
  \A x \in Stops :
    LET below == StopBelow(x)
        width == biome.thresholds[x] - biome.thresholds[below]
    IN  /\ Lerp(biome.colors[below], biome.colors[x], One) = biome.colors[x]
        /\ (Shaded /\ shade.height = biome.thresholds[x]) =>
             shade.color = biome.colors[x]
        /\ (Shaded /\ shade.height = biome.thresholds[x] - 1) =>
             \A c \in Channels :
               IF x = "deep" THEN shade.color[c] = biome.colors[x][c]
               ELSE Abs(shade.color[c] - biome.colors[x][c])
                      <= (Abs(biome.colors[x][c] - biome.colors[below][c])
                            \div width) + 3

C12_Witness ==
  /\ Shaded /\ shade.height = biome.thresholds.mid - 1
  /\ shade.band = 2 /\ shade.t < One
  /\ shade.color # biome.colors.mid /\ shade.color # biome.colors.low

\* The per-channel blend a * (1 - t) + b * t.
Blend(a, b, t) == [c \in Channels |-> FMul(a[c], One - t) + FMul(b[c], t)]

\* Two colours that differ by at most one unit of the last place per channel
\* (the blend rounds two products, lerp rounds one).
SameColor(u, v) == \A c \in Channels : Abs(u[c] - v[c]) <= 1

StrictlyIncreasing(th) == th.deep < th.low /\ th.low < th.mid /\ th.mid < th.high

LowerStop(band) ==
  CASE band = 2 -> "low" [] band = 3 -> "mid" [] band = 4 -> "high"
    [] OTHER -> "deep"
UpperStop(band) ==
  CASE band = 0 -> "deep" [] band = 1 -> "low" [] band = 2 -> "mid"
    [] band = 3 -> "high" [] OTHER -> "peak"
Between(v, a, b) == (a <= v /\ v <= b) \/ (b <= v /\ v <= a)

Done(n) == obj[n].pc = "done"
Used(r) == \E n \in NoiseIds : obj[n].pc # "none" /\ obj[n].from = r
\* What a call returns when nothing else runs between its entry and return.
Alone(q) ==
  IF q.op = "noise2D" THEN Noise2DValue(obj[q.n], q.x, q.y)
  ELSE FractalValue(obj[q.n], q.x, q.y, q.octaves, q.lacunarity, q.persistence)

\* C14: once a SeededNoise object is constructed no step changes its tables
\* (not a query step, not next(), range() or reset() on the generator that
\* built it); a step of a query leaves every generator as it was; and a
\* query that returns, whatever ran between its entry and its return,
\* returns the value it returns when run alone.
C14_TablesImmutable ==
  [][/\ \A n \in NoiseIds : obj[n].pc = "done" => obj'[n] = obj[n]
     /\ call' # call => (rng' = rng /\ pos' = pos)
     /\ \A c \in Callers :
          (call[c].pc = "running" /\ call'[c].pc = "returned") =>
            call'[c].ret = Alone(call'[c])]_vars

C14_Witness ==
  /\ call[1].pc = "returned" /\ call[1].op = "fractalNoise"
  /\ call[1].octaves = MaxOctaves /\ call[1].ret # 0
  /\ call[2].pc = "running" /\ call[2].op = "fractalNoise" /\ call[2].i = 1
  /\ Len(log[obj[1].from]) = MaxLog /\ pos[obj[1].from] = 0

\* C15: any two generation runs for the same seed that build their table
\* from a generator at its seed state (a new SeededRNG(seed)) build the same
\* perm and permMod12, in whatever order they run and whatever ran before;
\* a run's generator is not moved by the draws of another run.
C15_SameSeedSameTables ==
  /\ \A n, m \in NoiseIds :
       (Done(n) /\ Done(m) /\ obj[n].start = 0 /\ obj[m].start = 0) =>
         obj[n].perm = obj[m].perm /\ obj[n].permMod12 = obj[m].permMod12
  /\ \A r \in Inst :
       ~Used(r) => rng[r].state = WordToBig(hashString(seedIn))

C15_Witness ==
  /\ Done(1) /\ Done(2) /\ obj[1].from = 2 /\ obj[2].from = 1
  /\ obj[1].start = 0 /\ obj[2].start = 0
  /\ obj[1].perm = obj[2].perm /\ obj[1].perm # PermOf(Identity)

\* C16: in every reachable state the state of a SeededRNG is an integer in
\* 0..2^32-1.
C16_StateIsUint32 ==
  \A r \in Inst : rng[r].state[1] = 0 /\ rng[r].state[2] = 0

\* The state of a generator after k next() calls from state (the first half
\* of the calls, then the rest).
RECURSIVE DrawsFrom(_, _)
DrawsFrom(state, k) ==
  IF k = 0 THEN state
  ELSE IF k = 1 THEN Advance(state)
  ELSE CHOOSE t \in {DrawsFrom(u, k - (k \div 2)) :
                       u \in {DrawsFrom(state, k \div 2)}} : TRUE

\* C17: new SeededNoise(rng) consumes exactly 255 draws: inside the shuffle
\* loop the generator has made one draw per finished iteration, on return it
\* is in the state 255 next() calls lead to from its state at entry, and a
\* noise2D or fractalNoise call leaves every generator where it was.
C17_ConstructorDraws255 ==
  [][/\ cur' # 0 =>
          pos'[obj'[cur'].from] = obj'[cur'].start + (255 - obj'[cur'].i)
     /\ (cur # 0 /\ cur' = 0) =>
          /\ pos'[obj[cur].from] = obj[cur].start + 255
          /\ rng'[obj[cur].from].state = DrawsFrom(obj[cur].entry, 255)
     /\ (out' # out /\ out'.op # "none") => (rng' = rng /\ pos' = pos)]_vars

C17_Witness ==
  /\ Done(2) /\ obj[2].start = 255 /\ pos[obj[2].from] = 510
  /\ rng[obj[2].from].state = DrawsFrom(obj[1].entry, 510)
  /\ out.op = "fractalNoise" /\ out.n = 2 /\ out.octaves = MaxOctaves

InTable(k) == k \in 0..511

\* C18: every table access of noise2D is in bounds, for negative and large
\* coordinates as well: ii and jj are in 0..255, the three indices into perm
\* and the three into permMod12 are in 0..511, perm repeats after 256
\* entries, and permMod12[k] = perm[k] mod 12 is an index of grad3.
C18_TableAccessInBounds ==
  /\ \A n \in NoiseIds : Done(n) =>
       /\ DOMAIN obj[n].perm = 0..511 /\ DOMAIN obj[n].permMod12 = 0..511
       /\ \A k \in 0..255 : obj[n].perm[k] = obj[n].perm[k + 256]
       /\ \A k \in 0..511 :
            /\ obj[n].perm[k] \in 0..255
            /\ obj[n].permMod12[k] = obj[n].perm[k] % 12
            /\ obj[n].permMod12[k] \in DOMAIN grad3
  /\ out.op = "noise2D" =>
       LET o  == obj[out.n]
           c  == Cell(out.x, out.y)
           i1 == IF c.x0 > c.y0 THEN 1 ELSE 0
           j1 == 1 - i1
           at == PermIndex(c.i, c.j, i1, j1)
       IN  /\ c.i % 256 \in 0..255 /\ c.j % 256 \in 0..255
           /\ \A k \in 1..3 : InTable(at[k])
           /\ \A k \in 1..3 : InTable(PermMod12Index(o, c.i, c.j, i1, j1)[k])
           /\ GradIndex(o, c.i, c.j, i1, j1)
                = [k \in 1..3 |-> o.permMod12[PermMod12Index(o, c.i, c.j, i1, j1)[k]]]

C18_Witness ==
  /\ out.op = "noise2D" /\ out.x < ToFixed(-100000)
  /\ Cell(out.x, out.y).i < -256
  /\ PermIndex(Cell(out.x, out.y).i, Cell(out.x, out.y).j, 0, 1)[1] \in 0..255

\* base to the power k by repeated multiplication, as the loop forms it.
RECURSIVE PowF(_, _)
PowF(base, k) == IF k = 0 THEN One ELSE FMul(PowF(base, k - 1), base)

\* The k-th sample of a fractalNoise call q: noise2D at frequency
\* lacunarity^k.
SampleOf(q, k) ==
  Noise2DValue(obj[q.n], FMul(q.x, PowF(q.lacunarity, k)),
               FMul(q.y, PowF(q.lacunarity, k)))

RECURSIVE WeightedSum(_, _)
WeightedSum(q, n) ==
  IF n = 0 THEN 0
  ELSE WeightedSum(q, n - 1) + FMul(SampleOf(q, n - 1), PowF(q.persistence, n - 1))

RECURSIVE AmplitudeSum(_, _)
AmplitudeSum(q, n) ==
  IF n = 0 THEN 0 ELSE AmplitudeSum(q, n - 1) + PowF(q.persistence, n - 1)

LargestSample(q) ==
  CHOOSE m \in {Abs(SampleOf(q, k)) : k \in 0..(q.octaves - 1)} :
    \A k \in 0..(q.octaves - 1) : Abs(SampleOf(q, k)) <= m

FractalCall == out.op = "fractalNoise" /\ out.octaves >= 1

\* C19 as stated: the magnitude of the result of fractalNoise with n >= 1
\* octaves and persistence > 0 never exceeds the largest magnitude among its
\* n samples.
C19_NeverAboveLargestSample ==
  (FractalCall /\ out.persistence > 0) => Abs(out.ret) <= LargestSample(out)

\* C19: fractalNoise with n >= 1 octaves returns the sum of the n samples
\* noise2D(x * L^k, y * L^k) weighted by P^k, k = 0..n-1, divided by the sum
\* of the P^k; for P > 0 its magnitude exceeds the largest magnitude among
\* the samples by no more than the rounding of the n products and the
\* quotient (one unit of the last place each).
C19_WeightedAverage ==
  FractalCall =>
    /\ out.ret = FDiv(WeightedSum(out, out.octaves), AmplitudeSum(out, out.octaves))
    /\ out.persistence > 0 => Abs(out.ret) <= LargestSample(out) + out.octaves

C19_Witness ==
  /\ FractalCall /\ out.octaves = MaxOctaves
  /\ out.lacunarity = One /\ out.persistence = Q \div 3
  /\ SampleOf(out, 0) = SampleOf(out, 1)
  /\ Abs(out.ret) > LargestSample(out)

(***************************************************************************)
(* Properties of degenerate arguments and of the callers                   *)
(***************************************************************************)
\* The objects n and m were built one after the other from one generator
\* with no reset() in between.
BackToBack(n, m) ==
  /\ Done(n) /\ Done(m) /\ obj[n].from = obj[m].from
  /\ obj[m].start = obj[n].start + 255

\* C25: the constructor starts from the state the generator is in and never
\* resets it (entering it changes no generator, each of its steps keeps the
\* seed and moves the state by at most one draw); the tables depend on that
\* entry state only, so two objects entered in equal states, such as before
\* and after rng.reset(), have equal perm and permMod12; and an object
\* built right after another from the same generator is entered in the
\* state 255 draws after the first one's entry, so it uses draws 256..510.
C25_TableFromEntryState ==
  [][/\ (cur = 0 /\ cur' # 0) =>
          /\ rng' = rng /\ pos' = pos
          /\ obj'[cur'].entry = rng[obj'[cur'].from].state
          /\ obj'[cur'].start = pos[obj'[cur'].from]
     /\ cur # 0 =>
          \A r \in Inst :
            /\ rng'[r].seed = rng[r].seed
            /\ rng'[r].state \in {rng[r].state, Advance(rng[r].state)}
     /\ (cur # 0 /\ cur' = 0) =>
          \A n, m \in NoiseIds :
            /\ (Done(n)' /\ Done(m)' /\ obj'[n].entry = obj'[m].entry) =>
                 (obj'[n].perm = obj'[m].perm
                    /\ obj'[n].permMod12 = obj'[m].permMod12)
            /\ BackToBack(n, m)' =>
                 obj'[m].entry = DrawsFrom(obj'[n].entry, 255)]_vars

\* One generator built both objects, the first from its seed state; it was
\* reset before the second was built, and the tables are equal.
C25_Witness ==
  /\ Done(1) /\ Done(2) /\ obj[1].from = obj[2].from
  /\ obj[1].start = 0 /\ obj[2].start = 0
  /\ obj[1].entry = obj[2].entry
  /\ obj[1].perm = obj[2].perm /\ obj[1].permMod12 = obj[2].permMod12
  /\ pos[obj[1].from] = 255

\* getVertexColor divided by zero in the branch it took.
DividesByZero(v) == Len(v.div) = 2 /\ v.div[2] = 0

ZeroWidth(th) == th.deep = th.low \/ th.low = th.mid \/ th.mid = th.high

\* The claim that a configuration with two equal adjacent thresholds makes
\* getVertexColor divide by zero for some height.
C22_ZeroWidthDividesByZero ==
  (Shaded /\ ZeroWidth(biome.thresholds)) =>
    \E h \in Heights(biome) : DividesByZero(VertexColor(h, biome))

\* C22: getVertexColor divides by zero exactly in its last branch under a
\* configuration whose last threshold is 1 (the divisor is 1 - high; the
\* colour is NaN at height 1 and the peak stop above).  A band of zero width
\* is never entered: a band's branch is taken only for lo <= h < hi, so its
\* divisor hi - lo is positive, and at the shared threshold the colour is the
\* one the next band of positive width starts from.
C22_ZeroDivisorOnlyInLastBand ==
  Shaded =>
    /\ DividesByZero(shade) <=> (shade.band = 4 /\ biome.thresholds.high = One)
    /\ shade.band \in 1..3 => shade.div[1] >= 0 /\ shade.div[1] < shade.div[2]
    /\ (shade.band = 4 /\ DividesByZero(shade)) =>
         IF shade.height = One
         THEN shade.t = "NaN" /\ \A c \in Channels : shade.color[c] = "NaN"
         ELSE shade.t = One /\ SameColor(shade.color, biome.colors.peak)
    /\ \A x \in Stops :
         (shade.height = biome.thresholds[x] /\ shade.band # 4) =>
           SameColor(shade.color, biome.colors[LowerStop(shade.band)])

C22_Witness ==
  /\ Shaded /\ biome.thresholds.deep = biome.thresholds.low
  /\ biome.thresholds.low < biome.thresholds.mid
  /\ shade.height = biome.thresholds.deep
  /\ shade.band = 2 /\ shade.t = 0 /\ ~DividesByZero(shade)
  /\ shade.color = biome.colors.low

\* C21: a getVertexColor call leaves the biome configuration as it was (the
\* five stop objects keep their channels, the thresholds their values), in
\* every call of a sequence of calls; the object it returns did not exist
\* before the call, so it is none of the stops and none of the earlier
\* results; it holds the colour of the branch taken, and the interpolation
\* that produced it changed no other object.
C21_ConfigUntouchedResultFresh ==
  [][shade' # shade =>
       /\ biome' = biome
       /\ \A k \in DOMAIN heap : heap'[k] = heap[k]
       /\ StopObjects(biome) = [k \in 1..5 |-> heap'[k]]
       /\ shade'.ref \notin DOMAIN heap
       /\ shade'.ref \in DOMAIN heap' /\ shade'.ref > 5
       /\ heap'[shade'.ref] = VertexColor(shade'.height, biome).color]_vars

\* The second of two calls interpolated its result, while the first call's
\* result and the stops kept their channels.
C21_Witness ==
  /\ Shaded /\ Len(heap) = 5 + MaxResults
  /\ shade.ref = Len(heap)
  /\ shade.band \in 1..4 /\ shade.t > 0
  /\ heap[shade.ref] # heap[CloneOf(shade.band)]
  /\ heap[6] # heap[shade.ref]
  /\ StopObjects(biome) = [k \in 1..5 |-> heap[k]]

\* What fractalNoise returns for the vertex i, k of the mesh.
MeshFractal(i, k) ==
  FractalValue(obj[1], FMul(MeshPosition(i), biome.noiseScale),
               FMul(MeshPosition(k), biome.noiseScale), biome.octaves, 2 * Q,
               Half)

\* C23: in an iteration of the vertex loop of TerrainMesh and of the pixel
\* loop of TerrainOverlay, under every preset, the height handed to
\* getVertexColor is max(-1, min(1, raw)) of the raw height and so lies in
\* [-1, 1]; the Y position of a mesh vertex is that height times
\* heightScale and lies in [-heightScale, heightScale]; the raw height is
\* what fractalNoise returned (plus 0.15 times what noise2D returned, in the
\* mesh), unclamped: the clamp is the call site's.
C23_CallSitesClamp ==
  vert.site # "none" =>
    /\ shade.op = "getVertexColor" /\ shade.height = vert.height
    /\ vert.height = MathMax(-One, MathMin(One, vert.raw))
    /\ -One <= shade.height /\ shade.height <= One
    /\ vert.raw = vert.fractal + vert.detail
    /\ vert.site = "TerrainMesh" =>
         /\ vert.y = vert.height * biome.heightScale
         /\ -ToFixed(biome.heightScale) <= vert.y
         /\ vert.y <= ToFixed(biome.heightScale)
         /\ vert.fractal = MeshFractal(vert.at[1], vert.at[2])
    /\ vert.site = "TerrainOverlay" => vert.detail = 0

\* A mesh vertex whose raw height is below -1: it is coloured as height -1
\* and placed at -heightScale.
C23_Witness ==
  /\ vert.site = "TerrainMesh"
  /\ vert.raw < -One /\ vert.fractal > -One
  /\ vert.height = -One /\ shade.height = -One
  /\ vert.y = -ToFixed(biome.heightScale)
  /\ shade.band = 0

NoOctaves(q) == q.op = "fractalNoise" /\ q.octaves <= 0

\* C24: a fractalNoise call with an octave count of zero or less runs no
\* iteration of its loop (no noise2D sample is taken), so total and the sum
\* of amplitudes maxValue are still 0 when it returns, and it returns
\* 0 / 0, not-a-number; nothing stops the call before its return.
C24_NoOctavesIsNaN ==
  \A c \in Callers :
    NoOctaves(call[c]) =>
      /\ call[c].i = 0
      /\ call[c].v = FractalStart
      /\ call[c].pc = "returned" => call[c].ret = "NaN"

C24_Witness ==
  /\ NoOctaves(call[1]) /\ call[1].octaves = 0 /\ call[1].pc = "returned"
  /\ NoOctaves(call[2]) /\ call[2].octaves = -1 /\ call[2].pc = "returned"
  /\ call[1].ret = "NaN" /\ call[2].ret = "NaN"

====
